---- MODULE Spec2Model ----
(***************************************************************************)
(* Model of the Neo4j Memory Builder API.  The repository holds three      *)
(* versions of the Express server: src/server.js and the two files         *)
(* src/unnamed/part_000 and src/unnamed/part_001.  Their POST /write and   *)
(* POST /query handlers differ, so every request of the model carries the  *)
(* file whose handler serves it:                                           *)
(*   "server" = src/server.js                                              *)
(*   "part1"  = src/unnamed/part_001                                       *)
(* part_000 adds no handler of its own: its POST /write is the text of     *)
(* part_001's (lines 52-123 there, 65-136 here) and its POST /query is     *)
(* that of server.js without the conversion of Integer values, so a        *)
(* request served by part_000 behaves as a "part1" write or a "server"     *)
(* query.                                                                  *)
(* The graph database is modelled as a set of nodes and a set of edges;    *)
(* every session.run is one auto-commit transaction, so one atomic step.   *)
(* A handler is split at its awaits: the code between two awaits touches   *)
(* only the request's own locals and runs to completion in Node.js.        *)
(* Texts (statement texts, relationship types, serialised contexts) on     *)
(* which the code does character work are sequences of one-character       *)
(* strings.                                                                *)
(***************************************************************************)
EXTENDS Integers, Sequences, FiniteSets, TLC

\* A value that stands for JavaScript's undefined / an absent property.
NoVal == "undefined"

(***************************************************************************)
(* Characters                                                              *)
(***************************************************************************)
UpperChars == {"A","B","C","D","E","F","G","H","I","J","K","L","M",
               "N","O","P","Q","R","S","T","U","V","W","X","Y","Z"}
LowerChars == {"a","b","c","d","e","f","g","h","i","j","k","l","m",
               "n","o","p","q","r","s","t","u","v","w","x","y","z"}
DigitChars == {"0","1","2","3","4","5","6","7","8","9"}

UpperSeq == <<"A","B","C","D","E","F","G","H","I","J","K","L","M",
              "N","O","P","Q","R","S","T","U","V","W","X","Y","Z">>
LowerSeq == <<"a","b","c","d","e","f","g","h","i","j","k","l","m",
              "n","o","p","q","r","s","t","u","v","w","x","y","z">>
DigitSeq == <<"0","1","2","3","4","5","6","7","8","9">>

\* String.prototype.toLowerCase on one character (ASCII letters; every other
\* character of the model is its own lower case).
LowerChar(c) ==
  IF c \in UpperChars
  THEN LowerSeq[CHOOSE i \in 1..26 : UpperSeq[i] = c]
  ELSE c

\* finalCypher.toLowerCase()
toLowerCase(s) == [i \in 1..Len(s) |-> LowerChar(s[i])]

\* String.prototype.includes: needle occurs in s at some position.
includes(s, needle) ==
  \E i \in 1..(Len(s) - Len(needle) + 1) :
    \A j \in 1..Len(needle) : s[i + j - 1] = needle[j]

KwDelete == <<"d","e","l","e","t","e">>
KwDrop == <<"d","r","o","p">>

\* The guard of POST /query in part_001:
\*   lowered.includes("delete") || lowered.includes("drop")
IsDestructive(cypher) ==
  LET lowered == toLowerCase(cypher)
  IN  includes(lowered, KwDelete) \/ includes(lowered, KwDrop)

\* Whether a statement text names a destructive keyword in any letter case,
\* at any position: used by the properties, independent of the guard.
MentionsKeyword(cypher) ==
  \E kw \in {KwDelete, KwDrop} :
    \E i \in 1..(Len(cypher) - Len(kw) + 1) :
      \A j \in 1..Len(kw) : cypher[i + j - 1] \in {kw[j]} \cup
          {UpperSeq[k] : k \in {m \in 1..26 : LowerSeq[m] = kw[j]}}

(***************************************************************************)
(* Relationship types                                                      *)
(***************************************************************************)
\* The regular expression /[^A-Z0-9_]/gi: the class A-Z0-9_ under the i flag
\* matches letters of either case, so the negated class matches every other
\* character.
RegexMatches(c) == c \notin (UpperChars \cup LowerChars \cup DigitChars \cup {"_"})

\* type.replace(/[^A-Z0-9_]/gi, "_")
safeType(type) == [i \in 1..Len(type) |-> IF RegexMatches(type[i]) THEN "_" ELSE type[i]]

\* server.js interpolates the type as given: MERGE (a)-[r:${type}]->(b)
rawType(type) == type

\* Cypher accepts an unquoted relationship type only when it is a symbolic
\* name: a letter or underscore followed by letters, digits and underscores.
\* Any other interpolated text makes the statement a syntax error.
IsSymbolicName(t) ==
  /\ Len(t) > 0
  /\ t[1] \in UpperChars \cup LowerChars \cup {"_"}
  /\ \A i \in 1..Len(t) : t[i] \in UpperChars \cup LowerChars \cup DigitChars \cup {"_"}

(***************************************************************************)
(* JSON values, JSON.stringify, String and JSON.parse                      *)
(* A JSON value is a tagged record: [t |-> "null"], [t |-> "bool", v |-> b],*)
(* [t |-> "num", v |-> n] (n a natural number), [t |-> "str", v |-> chars], *)
(* [t |-> "arr", v |-> sequence of values], [t |-> "obj", v |-> sequence of *)
(* [k |-> chars, v |-> value]] (members in insertion order).  The texts of  *)
(* the model hold no white space, sign, fraction, exponent or control       *)
(* character, so the grammar below is JSON's on those texts.                *)
(***************************************************************************)
JNull == [t |-> "null"]
JBool(b) == [t |-> "bool", v |-> b]
JNum(n) == [t |-> "num", v |-> n]
JStr(cs) == [t |-> "str", v |-> cs]
JArr(vs) == [t |-> "arr", v |-> vs]
JObj(ms) == [t |-> "obj", v |-> ms]

\* typeof context === "object": objects, arrays and null.
TypeofObject(v) == v.t \in {"obj", "arr", "null"}

\* Structural equality of two JSON values (tags first, so that values of
\* different kinds are never compared).
RECURSIVE JsonEq(_, _)
JsonEq(a, b) ==
  IF a.t # b.t THEN FALSE
  ELSE CASE a.t = "null" -> TRUE
         [] a.t \in {"bool", "num", "str"} -> a.v = b.v
         [] a.t = "arr" ->
              /\ Len(a.v) = Len(b.v)
              /\ \A i \in 1..Len(a.v) : JsonEq(a.v[i], b.v[i])
         [] a.t = "obj" ->
              /\ Len(a.v) = Len(b.v)
              /\ \A i \in 1..Len(a.v) :
                   a.v[i].k = b.v[i].k /\ JsonEq(a.v[i].v, b.v[i].v)

\* Decimal digits of a natural number.
RECURSIVE NumToChars(_)
NumToChars(n) ==
  IF n < 10 THEN <<DigitSeq[n + 1]>>
  ELSE NumToChars(n \div 10) \o <<DigitSeq[(n % 10) + 1]>>

DigitValue(c) == (CHOOSE i \in 1..10 : DigitSeq[i] = c) - 1

\* A string's characters inside a JSON string literal: " and \ are escaped.
RECURSIVE EscapeChars(_)
EscapeChars(cs) ==
  IF cs = <<>> THEN <<>>
  ELSE (IF Head(cs) \in {"\"", "\\"} THEN <<"\\", Head(cs)>> ELSE <<Head(cs)>>)
       \o EscapeChars(Tail(cs))

Quote(cs) == <<"\"">> \o EscapeChars(cs) \o <<"\"">>

\* JSON.stringify(value) for a value that came out of a JSON request body.
RECURSIVE JSONstringify(_)
RECURSIVE StringifyElems(_, _)
RECURSIVE StringifyMembers(_, _)
JSONstringify(v) ==
  CASE v.t = "null" -> <<"n","u","l","l">>
    [] v.t = "bool" -> IF v.v THEN <<"t","r","u","e">> ELSE <<"f","a","l","s","e">>
    [] v.t = "num" -> NumToChars(v.v)
    [] v.t = "str" -> Quote(v.v)
    [] v.t = "arr" -> <<"[">> \o StringifyElems(v.v, 1) \o <<"]">>
    [] v.t = "obj" -> <<"{">> \o StringifyMembers(v.v, 1) \o <<"}">>
StringifyElems(vs, i) ==
  IF i > Len(vs) THEN <<>>
  ELSE (IF i > 1 THEN <<",">> ELSE <<>>) \o JSONstringify(vs[i])
       \o StringifyElems(vs, i + 1)
StringifyMembers(ms, i) ==
  IF i > Len(ms) THEN <<>>
  ELSE (IF i > 1 THEN <<",">> ELSE <<>>) \o Quote(ms[i].k) \o <<":">>
       \o JSONstringify(ms[i].v) \o StringifyMembers(ms, i + 1)

\* String(value) for a value that is not typeof "object": a string is itself,
\* a number its digits, a boolean its name.
StringOf(v) ==
  CASE v.t = "str" -> v.v
    [] v.t = "num" -> NumToChars(v.v)
    [] v.t = "bool" -> IF v.v THEN <<"t","r","u","e">> ELSE <<"f","a","l","s","e">>
    [] OTHER -> JSONstringify(v)

\* The parser: each function returns [ok, val, next]; next is the position
\* after the value.
ParseFail == [ok |-> FALSE, val |-> JNull, next |-> 0]
ParseOk(val, next) == [ok |-> TRUE, val |-> val, next |-> next]

HasAt(s, i, lit) ==
  /\ i + Len(lit) - 1 <= Len(s)
  /\ \A j \in 1..Len(lit) : s[i + j - 1] = lit[j]

RECURSIVE ParseDigits(_, _, _)
ParseDigits(s, i, acc) ==
  IF i <= Len(s) /\ s[i] \in DigitChars
  THEN ParseDigits(s, i + 1, acc * 10 + DigitValue(s[i]))
  ELSE ParseOk(JNum(acc), i)

\* number: 0, or a non-zero digit followed by digits (no leading zero).
ParseNumber(s, i) ==
  IF s[i] = "0" THEN ParseOk(JNum(0), i + 1) ELSE ParseDigits(s, i, 0)

\* the characters of a string literal, from the position after its opening
\* quote; returns the characters and the position after the closing quote.
RECURSIVE ParseChars(_, _, _)
ParseChars(s, i, acc) ==
  IF i > Len(s) THEN ParseFail
  ELSE IF s[i] = "\"" THEN ParseOk(JStr(acc), i + 1)
  ELSE IF s[i] = "\\"
       THEN IF i + 1 <= Len(s) /\ s[i + 1] \in {"\"", "\\"}
            THEN ParseChars(s, i + 2, Append(acc, s[i + 1]))
            ELSE ParseFail
  ELSE ParseChars(s, i + 1, Append(acc, s[i]))

RECURSIVE ParseValue(_, _)
RECURSIVE ParseElems(_, _, _)
RECURSIVE ParseMembers(_, _, _)
ParseValue(s, i) ==
  IF i > Len(s) THEN ParseFail
  ELSE CASE s[i] = "n" ->
              IF HasAt(s, i, <<"n","u","l","l">>) THEN ParseOk(JNull, i + 4) ELSE ParseFail
         [] s[i] = "t" ->
              IF HasAt(s, i, <<"t","r","u","e">>) THEN ParseOk(JBool(TRUE), i + 4)
              ELSE ParseFail
         [] s[i] = "f" ->
              IF HasAt(s, i, <<"f","a","l","s","e">>) THEN ParseOk(JBool(FALSE), i + 5)
              ELSE ParseFail
         [] s[i] \in DigitChars -> ParseNumber(s, i)
         [] s[i] = "\"" -> ParseChars(s, i + 1, <<>>)
         [] s[i] = "[" ->
              IF HasAt(s, i + 1, <<"]">>) THEN ParseOk(JArr(<<>>), i + 2)
              ELSE ParseElems(s, i + 1, <<>>)
         [] s[i] = "{" ->
              IF HasAt(s, i + 1, <<"}">>) THEN ParseOk(JObj(<<>>), i + 2)
              ELSE ParseMembers(s, i + 1, <<>>)
         [] OTHER -> ParseFail
ParseElems(s, i, acc) ==
  LET e == ParseValue(s, i)
  IN  IF ~e.ok THEN ParseFail
      ELSE IF HasAt(s, e.next, <<",">>) THEN ParseElems(s, e.next + 1, Append(acc, e.val))
      ELSE IF HasAt(s, e.next, <<"]">>) THEN ParseOk(JArr(Append(acc, e.val)), e.next + 1)
      ELSE ParseFail
ParseMembers(s, i, acc) ==
  IF ~HasAt(s, i, <<"\"">>) THEN ParseFail
  ELSE LET k == ParseChars(s, i + 1, <<>>)
       IN  IF ~k.ok \/ ~HasAt(s, k.next, <<":">>) THEN ParseFail
           ELSE LET e == ParseValue(s, k.next + 1)
                    m == [k |-> k.val.v, v |-> e.val]
                IN  IF ~e.ok THEN ParseFail
                    ELSE IF HasAt(s, e.next, <<",">>)
                         THEN ParseMembers(s, e.next + 1, Append(acc, m))
                    ELSE IF HasAt(s, e.next, <<"}">>)
                         THEN ParseOk(JObj(Append(acc, m)), e.next + 1)
                    ELSE ParseFail

\* JSON.parse(text): ok is FALSE where JSON.parse throws.
JSONparse(s) ==
  LET r == ParseValue(s, 1)
  IN  IF r.ok /\ r.next = Len(s) + 1 THEN r ELSE ParseFail

(***************************************************************************)
(* Bounds and inputs of the model                                          *)
(***************************************************************************)
\* requests of one behaviour of Spec
MaxRequests == 3
\* requests of one behaviour of SpecConc
MaxConcRequests == 2
\* values of the clock read by new Date()
MaxTime == 2
\* nodes the store holds (CREATE is refused by the model beyond it)
MaxNodes == 3
\* requests that one behaviour of SpecGraph starts
MaxGraphRequests == 4

\* request slots: the requests in flight at the same time
Reqs == {1, 2}
Files == {"server", "part1"}
Texts == {"A", "B"}
\* label of the request body: absent, or "Person"
LabelInputs == {NoVal, "Person"}
\* mode of the request body: absent, or one of the three modes
ModeInputs == {NoVal, "overwrite", "skip"}

TLikes == <<"L","I","K","E","S">>
TIsA == <<"i","s"," ","a">>

\* context of the request body: absent (<<>>) or one JSON value (<<v>>)
ContextInputs ==
  << <<>>,
     <<JObj(<<[k |-> <<"a">>, v |-> JNum(1)]>>)>>,
     <<JStr(<<"1">>)>>,
     <<JStr(<<"h","i">>)>> >>

\* relationships of the request body.  A descriptor's absent from/to is NoVal,
\* its absent (or empty) type is <<>>.
RelInputs ==
  << <<>>,
     <<[from |-> "A", to |-> "B", type |-> TLikes]>>,
     <<[from |-> "A", to |-> NoVal, type |-> TLikes],
       [from |-> "A", to |-> "A", type |-> TLikes],
       [from |-> "A", to |-> "A", type |-> TIsA]>> >>

(***************************************************************************)
(* The graph store                                                         *)
(* A node is [id, label, text, context, createdAt, updatedAt]; an absent    *)
(* property is <<>> and a present one <<value>>.  An edge is                *)
(* [src, dst, type, createdAt, k]: src and dst are node ids and k counts    *)
(* the parallel edges of one type between one ordered pair of nodes.        *)
(***************************************************************************)
NodeIds(ns) == {n.id : n \in ns}

\* id(n) of a node the store creates: an id no live node has.
FreshId(ns) == CHOOSE i \in 0..Cardinality(ns) : i \notin NodeIds(ns)

NewNode(ns, label, text, ctx, created, updated) ==
  [id |-> FreshId(ns), label |-> label, text |-> text, context |-> ctx,
   createdAt |-> created, updatedAt |-> updated]

\* MERGE (n:label {text: $text}): the nodes the pattern matches
Matching(ns, label, text) == {n \in ns : n.label = label /\ n.text = text}

\* A statement's outcome: the store after it and the ids it returns
\* (result.records, one per row).
Outcome(ns, ids) == [nodes |-> ns, ids |-> ids]

\* A mutation of CypherCreate: MERGE in the place of CREATE, no node is added
\* when one of the label and text exists.
CypherCreateDeduplicated(ns, label, text, contextString, timestamp) ==
  IF \E n \in ns : n.label = label /\ n.text = text
  THEN Outcome(ns, {n.id : n \in {m \in ns : m.label = label /\ m.text = text}})
  ELSE LET n == NewNode(ns, label, text, <<contextString>>, <<timestamp>>, <<>>)
       IN  Outcome(ns \cup {n}, {n.id})

\* CREATE (n:label {text, context, createdAt}) RETURN id(n)
CypherCreate(ns, label, text, contextString, timestamp) ==
  LET n == NewNode(ns, label, text, <<contextString>>, <<timestamp>>, <<>>)
  IN  Outcome(ns \cup {n}, {n.id})

\* MERGE (n:label {text}) ON CREATE SET n.createdAt
\* SET n.context, n.updatedAt RETURN id(n)
CypherMergeOverwrite(ns, label, text, contextString, timestamp) ==
  LET m == Matching(ns, label, text)
  IN  IF m = {}
      THEN LET n == NewNode(ns, label, text, <<contextString>>, <<timestamp>>,
                            <<timestamp>>)
           IN  Outcome(ns \cup {n}, {n.id})
      ELSE Outcome((ns \ m) \cup
                   {[n EXCEPT !.context = <<contextString>>,
                              !.updatedAt = <<timestamp>>] : n \in m},
                   NodeIds(m))

\* MERGE (n:label {text}) ON CREATE SET n.context, n.createdAt RETURN id(n)
CypherMergeSkip(ns, label, text, contextString, timestamp) ==
  LET m == Matching(ns, label, text)
  IN  IF m = {}
      THEN LET n == NewNode(ns, label, text, <<contextString>>, <<timestamp>>, <<>>)
           IN  Outcome(ns \cup {n}, {n.id})
      ELSE Outcome(ns, NodeIds(m))

\* exists(n.context) of a returned node, evaluated after the MERGE and its
\* ON CREATE SET have run.
ExistsContext(ns, id) == \E n \in ns : n.id = id /\ n.context # <<>>

\* The ordered pairs (a, b) of: MATCH (a {text: $from}), (b {text: $to}),
\* with the label both must carry (NoVal: any label).
MatchPairs(ns, label, from, to) ==
  {<<a.id, b.id>> : a \in {n \in ns : n.text = from /\ label \in {NoVal, n.label}},
                    b \in {n \in ns : n.text = to /\ label \in {NoVal, n.label}}}

Parallel(es, src, dst, type) ==
  {e \in es : e.src = src /\ e.dst = dst /\ e.type = type}

\* A mutation of CypherMergeRel: CREATE in the place of MERGE, an edge for
\* every matched pair whether or not one exists.
CypherCreateRel(es, pairs, type, created) ==
  es \cup {[src |-> p[1], dst |-> p[2], type |-> type, createdAt |-> created,
            k |-> Cardinality(Parallel(es, p[1], p[2], type)) + 1] : p \in pairs}

\* MERGE (a)-[r:type]->(b) ON CREATE SET r.createdAt: for every matched pair
\* without an edge of that type, one edge is created.
CypherMergeRel(es, pairs, type, created) ==
  es \cup {[src |-> p[1], dst |-> p[2], type |-> type, createdAt |-> created, k |-> 1] :
             p \in {q \in pairs : Parallel(es, q[1], q[2], type) = {}}}

\* MATCH (n) DETACH DELETE n
CypherDeleteAll(ns) == {}

\* CREATE (:Memory {text: 'B'}): a node with no context, as a statement given
\* to POST /query can write it.
CypherCreateBare(ns) == ns \cup {NewNode(ns, "Memory", "B", <<>>, <<>>, <<>>)}

(***************************************************************************)
(* Statements of POST /query                                               *)
(* A statement text and what the store does with it: "nodes" returns the    *)
(* nodes (of a label, or of any label when label is NoVal) as Node objects, *)
(* "props" returns each node's property map, "edges" returns a row          *)
(* (a, r, b) per edge with a and b as Node objects, "delete" removes every  *)
(* node and edge, "schema" changes no node or edge, "bare" creates a node   *)
(* that has a text and no context.                                         *)
(***************************************************************************)
Stmt(text, kind, label) == [text |-> text, kind |-> kind, label |-> label]

\* cypher of the request body: 0 is an absent cypher, i > 0 is Queries[i].text
Queries ==
  << Stmt(<<"M","A","T","C","H"," ","(","n",")"," ","R","E","T","U","R","N",
            " ","n">>, "nodes", NoVal),
     Stmt(<<"M","A","T","C","H"," ","(","n",")"," ","R","E","T","U","R","N",
            " ","p","r","o","p","e","r","t","i","e","s","(","n",")"," ","A",
            "S"," ","n">>, "props", NoVal),
     Stmt(<<"M","A","T","C","H"," ","(","n",")"," ","D","E","T","A","C","H",
            " ","D","E","L","E","T","E"," ","n">>, "delete", NoVal),
     Stmt(<<"D","r","o","p"," ","I","n","d","e","x"," ","m","e","m","o","r",
            "y","_","t","e","x","t">>, "schema", NoVal),
     Stmt(<<"C","R","E","A","T","E"," ","(",":","M","e","m","o","r","y"," ",
            "{","t","e","x","t",":"," ","'","B","'","}",")">>, "bare", NoVal) >>

CypherInputs == 0..Len(Queries)
FormatInputs == {NoVal, "json"}
PresetInputs == {NoVal, "getAllPersons", "getGraphSnapshot", "nope"}

\* The switch (preset) of POST /query in part_001; <<>> is the default branch.
PresetCypher(preset) ==
  CASE preset = "getAllPersons" ->
         <<Stmt(<<"M","A","T","C","H"," ","(","p",":","P","e","r","s","o","n",")",
            " ","R","E","T","U","R","N"," ","p"," ","L","I","M","I","T"," ",
            "$","l","i","m","i","t">>, "nodes", "Person")>>
    [] preset = "getAllCompanies" ->
         <<Stmt(<<"M","A","T","C","H"," ","(","c",":","C","o","m","p","a","n","y",
            ")"," ","R","E","T","U","R","N"," ","c"," ","L","I","M","I","T",
            " ","$","l","i","m","i","t">>, "nodes", "Company")>>
    [] preset = "getGraphSnapshot" ->
         <<Stmt(<<"M","A","T","C","H"," ","(","a",")","-","[","r","]","-",">","(",
            "b",")"," ","R","E","T","U","R","N"," ","a",","," ","r",","," ",
            "b"," ","L","I","M","I","T"," ","$","l","i","m","i","t">>, "edges", NoVal)>>
    [] preset = "getInsights" ->
         <<Stmt(<<"M","A","T","C","H"," ","(","i",":","I","n","s","i","g","h","t",
            ")","-","[","r","e","l","]","-",">","(","n",")"," ","R","E","T",
            "U","R","N"," ","i",","," ","r","e","l",","," ","n"," ","L","I",
            "M","I","T"," ","$","l","i","m","i","t">>, "edges", "Insight")>>
    [] OTHER -> <<>>

(***************************************************************************)
(* The row limit.  A value of the body's limit field is [t, v]: undefined   *)
(* (the field is absent), null, NaN, a number (v holds it in tenths, so     *)
(* that 2.5 is <<25>>) or a string (v holds its characters).  The strings   *)
(* are of a sign, digits, at most one fraction digit, and letters.          *)
(***************************************************************************)
LUndefined == [t |-> "undefined", v |-> <<>>]
LNull == [t |-> "null", v |-> <<>>]
LNaN == [t |-> "NaN", v |-> <<>>]
LNum(tenths) == [t |-> "num", v |-> <<tenths>>]
LStr(cs) == [t |-> "str", v |-> cs]

\* limit = 250 of POST /query, req.body.limit ?? 500 of POST /graph
QueryDefaultLimit == 250
GraphDefaultLimit == 500

\* The sign and the rest of a numeric text.
Signed(cs) ==
  IF cs # <<>> /\ cs[1] \in {"-", "+"}
  THEN [sign |-> IF cs[1] = "-" THEN 0 - 1 ELSE 1, rest |-> Tail(cs)]
  ELSE [sign |-> 1, rest |-> cs]

\* Number(string): the empty text is 0, a decimal literal is its value,
\* anything else is NaN.
StringToNumber(cs) ==
  LET sg == Signed(cs)
      s == sg.rest
      ip == ParseDigits(s, 1, 0)
  IN  IF cs = <<>> THEN LNum(0)
      ELSE IF ip.next = 1 THEN LNaN
      ELSE IF ip.next > Len(s) THEN LNum(sg.sign * ip.val.v * 10)
      ELSE IF s[ip.next] = "." /\ ip.next = Len(s) THEN LNum(sg.sign * ip.val.v * 10)
      ELSE IF s[ip.next] = "." /\ ip.next + 1 = Len(s) /\ s[Len(s)] \in DigitChars
      THEN LNum(sg.sign * (ip.val.v * 10 + DigitValue(s[Len(s)])))
      ELSE LNaN

\* Number(limit)
Number(x) ==
  CASE x.t = "num" -> x
    [] x.t = "null" -> LNum(0)
    [] x.t = "str" -> StringToNumber(x.v)
    [] OTHER -> LNaN

\* String(x) of a number, of NaN and of a string (parseInt converts its
\* argument to a string first).
StringOfNumber(x) ==
  CASE x.t = "num" ->
         LET a == IF x.v[1] < 0 THEN 0 - x.v[1] ELSE x.v[1]
         IN  (IF x.v[1] < 0 THEN <<"-">> ELSE <<>>)
             \o NumToChars(a \div 10)
             \o (IF a % 10 = 0 THEN <<>> ELSE <<".", DigitSeq[(a % 10) + 1]>>)
    [] x.t = "str" -> x.v
    [] x.t = "NaN" -> <<"N", "a", "N">>
    [] OTHER -> <<>>

\* parseInt(x, 10): the sign and the leading digits of the text, NaN when
\* there is no leading digit.
parseInt(x) ==
  LET sg == Signed(StringOfNumber(x))
      ip == ParseDigits(sg.rest, 1, 0)
  IN  IF ip.next = 1 THEN LNaN ELSE LNum(sg.sign * ip.val.v * 10)

\* x || 0: NaN and 0 are falsy.
OrZero(x) == IF x.t = "NaN" \/ (x.t = "num" /\ x.v[1] = 0) THEN LNum(0) ELSE x

\* Math.max(0, x)
MathMax0(x) ==
  IF x.t # "num" THEN LNaN ELSE IF x.v[1] < 0 THEN LNum(0) ELSE x

\* POST /query of part_001: const { limit = 250 } = req.body; the value bound
\* is Number(limit).
QueryLimit(limit) ==
  Number(IF limit.t = "undefined" THEN LNum(QueryDefaultLimit * 10) ELSE limit)

\* POST /graph: rawLimit = req.body.limit ?? 500;
\* limit = Math.max(0, parseInt(rawLimit, 10) || 0)
GraphLimit(limit) ==
  LET rawLimit == IF limit.t \in {"undefined", "null"}
                  THEN LNum(GraphDefaultLimit * 10) ELSE limit
  IN  MathMax0(OrZero(parseInt(rawLimit)))

\* Whether a value is a number that is an integer and not negative.
IsNonNegInteger(x) == x.t = "num" /\ x.v[1] >= 0 /\ x.v[1] % 10 = 0

\* LIMIT $limit: the store takes a non-negative integer and rejects the
\* statement for any other value.
CypherLimitValid(bound) == IsNonNegInteger(bound)

\* The statement names the parameter $limit.
UsesLimit(stmt) == includes(stmt.text, <<"$","l","i","m","i","t">>)

\* The values of limit that the request bodies carry: absent, null, 1, 0, -5,
\* 2.5, "1", "-3", "2.5", "abc", "".
LimitInputs ==
  << LUndefined, LNull, LNum(10), LNum(0), LNum(0 - 50), LNum(25),
     LStr(<<"1">>), LStr(<<"-","3">>), LStr(<<"2",".","5">>),
     LStr(<<"a","b","c">>), LStr(<<>>) >>

(***************************************************************************)
(* State                                                                   *)
(***************************************************************************)
VARIABLES
  nodes,    \* the nodes of the database
  edges,    \* the relationships of the database
  clock,    \* the last value new Date() returned
  started,  \* requests started so far
  req       \* per request slot: the handler's body, locals, session, response

vars == <<nodes, edges, clock, started, req>>

NoResults == [id \in {} |-> <<>>]

\* A slot no request occupies.
IdleReq ==
  [pc |-> "idle", ep |-> NoVal, file |-> NoVal,
   text |-> NoVal, label |-> NoVal, context |-> <<>>, rels |-> <<>>, mode |-> NoVal,
   cypher |-> 0, format |-> NoVal, preset |-> NoVal, filterLabel |-> NoVal,
   timestamp |-> 0, contextString |-> <<>>, nodeId |-> <<>>, i |-> 0, final |-> <<>>,
   opened |-> 0, closed |-> 0, runs |-> <<>>, res |-> <<>>,
   results |-> NoResults, gnodes |-> <<>>, links |-> <<>>,
   limit |-> LUndefined, bound |-> <<>>, rows |-> 0]

\* A response: its HTTP status code, its status field, nodeId and error.
Resp(code, status, nodeId, error) ==
  [code |-> code, status |-> status, nodeId |-> nodeId, error |-> error]

Init ==
  /\ nodes = {}
  /\ edges = {}
  /\ clock = 1
  /\ started = 0
  /\ req = [r \in Reqs |-> IdleReq]

(***************************************************************************)
(* The ends of a handler: res.json and return inside try, catch, finally    *)
(***************************************************************************)
\* A mutation of EarlyReturn: the return leaves the handler without running
\* the finally block.
EarlyReturnNoFinally(rq, resp) ==
  [rq EXCEPT !.res = Append(@, resp), !.pc = "done"]

\* return res.json(...) / return res.status(400).json(...) inside the try
\* block: the response is sent, then the finally block awaits session.close().
EarlyReturn(rq, resp) ==
  [rq EXCEPT !.res = Append(@, resp), !.pc = "closing"]

\* res.json(...) as the last statement of the try block, then finally.
Respond(rq, resp) ==
  [rq EXCEPT !.res = Append(@, resp), !.pc = "closing"]

\* A mutation of Catch: the error is swallowed and the relationship loop goes
\* on with the next descriptor.
CatchAndContinue(rq, message) ==
  IF rq.pc = "rel" /\ rq.i < Len(rq.rels)
  THEN [rq EXCEPT !.i = @ + 1]
  ELSE [rq EXCEPT !.res = Append(@, Resp(500, "error", <<>>, message)),
                  !.pc = "closing"]

\* catch (error) { res.status(500).json({ error: error.message }) }, then
\* finally.
Catch(rq, message) ==
  [rq EXCEPT !.res = Append(@, Resp(500, "error", <<>>, message)),
             !.pc = "closing"]

\* driver.session({ database: db })
OpenSession(rq) == [rq EXCEPT !.opened = @ + 1]

\* session.run(...) is called and settles: the statement (0: the handler's
\* first statement, i: the statement of the i-th relationship descriptor)
\* and whether the promise resolved (ok) or rejected.
Ran(rq, k, ok) == [rq EXCEPT !.runs = Append(@, [k |-> k, ok |-> ok])]

(***************************************************************************)
(* POST /write                                                             *)
(***************************************************************************)
Falsy(x) == x \in {NoVal, ""}

\* if (!from || !to || !type) continue;
Incomplete(rel) == Falsy(rel.from) \/ Falsy(rel.to) \/ rel.type = <<>>

\* The position of the first descriptor at or after i that the loop does not
\* skip; Len(rels) + 1 when there is none.
RECURSIVE NextRel(_, _)
NextRel(rels, i) ==
  IF i > Len(rels) THEN i
  ELSE IF Incomplete(rels[i]) THEN NextRel(rels, i + 1)
  ELSE i

\* const { label = "Memory", mode = "create" } = req.body
\* (server.js has no label: its statements name Memory).
LabelOf(file, label) == IF file = "server" \/ label = NoVal THEN "Memory" ELSE label
ModeOf(mode) == IF mode = NoVal THEN "create" ELSE mode
ContextOf(context) == IF context = <<>> THEN JObj(<<>>) ELSE context[1]

\* const contextString = ...
\*   server.js: JSON.stringify(context)
\*   part_001:
\*     typeof context === "object" ? JSON.stringify(context) : String(context)
ContextString(file, context) ==
  IF file = "server" THEN JSONstringify(context)
  ELSE IF TypeofObject(context) THEN JSONstringify(context) ELSE StringOf(context)

\* The handler up to its first await: the body is destructured, the session
\* opened, timestamp and contextString computed, the node statement issued.
\* new Date() reads a clock that never runs backwards: now is no earlier than
\* the last value read.
WriteStart(r, now, file, text, label, context, rels, mode) ==
  /\ req[r].pc \in {"idle", "done"}
  /\ now >= clock
  /\ clock' = now
  /\ started' = started + 1
  /\ req' = [req EXCEPT ![r] =
       OpenSession([IdleReq EXCEPT
         !.pc = "node", !.ep = "write", !.file = file,
         !.text = text, !.label = LabelOf(file, label),
         !.context = <<ContextOf(context)>>, !.rels = rels, !.mode = ModeOf(mode),
         !.timestamp = now,
         !.contextString = ContextString(file, ContextOf(context))])]
  /\ UNCHANGED <<nodes, edges>>

\* Whether the store accepts the node statement of a file and mode.  The
\* overwrite statement of server.js puts ON CREATE SET after a SET clause:
\*   MERGE (n:Memory {text: $text}) SET ... ON CREATE SET ... RETURN ...
\* ON CREATE is only part of a MERGE clause, so the store rejects the text.
NodeStatementValid(file, mode) == ~(file = "server" /\ mode = "overwrite")

\* The node statement of the handler, by mode.
NodeStatement(rq, ns) ==
  CASE rq.mode = "overwrite" ->
         CypherMergeOverwrite(ns, rq.label, rq.text, rq.contextString, rq.timestamp)
    [] rq.mode = "skip" ->
         CypherMergeSkip(ns, rq.label, rq.text, rq.contextString, rq.timestamp)
    [] OTHER ->
         CypherCreate(ns, rq.label, rq.text, rq.contextString, rq.timestamp)

\* server.js, case "skip":
\*   if (result.records.length && result.records[0].get("existed")) return ...
\* part_001 has no such test.
SkipShortCircuit(rq, ns, id) ==
  rq.file = "server" /\ rq.mode = "skip" /\ ExistsContext(ns, id)

\* After a statement: the loop skips incomplete descriptors up to the next
\* statement, or ends and the handler responds.
Continue(rq, from) ==
  LET j == NextRel(rq.rels, from)
  IN  IF j <= Len(rq.rels)
      THEN [rq EXCEPT !.pc = "rel", !.i = j]
      ELSE Respond([rq EXCEPT !.i = j], Resp(200, "ok", rq.nodeId, ""))

\* await session.run(cypher, { text, contextString, timestamp }) and the code
\* up to the next await.
WriteNode(r) ==
  /\ req[r].pc = "node"
  /\ LET rq == Ran(req[r], 0, NodeStatementValid(req[r].file, req[r].mode))
     IN  IF ~NodeStatementValid(rq.file, rq.mode)
         THEN /\ req' = [req EXCEPT ![r] = Catch(rq, "syntax error")]
              /\ UNCHANGED nodes
         ELSE LET out == NodeStatement(rq, nodes)
              IN  /\ Cardinality(out.nodes) <= MaxNodes
                  /\ nodes' = out.nodes
                  /\ \E id \in out.ids :
                       req' = [req EXCEPT ![r] =
                         IF SkipShortCircuit(rq, out.nodes, id)
                         THEN EarlyReturn(rq, Resp(200, "skipped", <<>>, ""))
                         ELSE Continue([rq EXCEPT !.nodeId = <<id>>], 1)]
  /\ UNCHANGED <<edges, clock, started>>

\* The relationship type interpolated into the statement.
RelType(file, type) == IF file = "server" THEN rawType(type) ELSE safeType(type)

\* The label of MATCH (a...), (b...): Memory in server.js, none in the others.
RelLabel(file) == IF file = "server" THEN "Memory" ELSE NoVal

\* ON CREATE SET r.createdAt = datetime($timestamp): not in server.js.
RelCreatedAt(file, timestamp) == IF file = "server" THEN <<>> ELSE <<timestamp>>

\* await session.run(relCypher, { from, to, timestamp }) for the descriptor
\* at position i, and the code up to the next await.
WriteRel(r) ==
  /\ req[r].pc = "rel"
  /\ LET rel == req[r].rels[req[r].i]
         type == RelType(req[r].file, rel.type)
         rq == Ran(req[r], req[r].i, IsSymbolicName(type))
     IN  IF ~IsSymbolicName(type)
         THEN /\ req' = [req EXCEPT ![r] = Catch(rq, "syntax error")]
              /\ UNCHANGED edges
         ELSE /\ edges' = CypherMergeRel(edges,
                            MatchPairs(nodes, RelLabel(rq.file), rel.from, rel.to),
                            type, RelCreatedAt(rq.file, rq.timestamp))
              /\ req' = [req EXCEPT ![r] = Continue(rq, rq.i + 1)]
  /\ UNCHANGED <<nodes, clock, started>>

(***************************************************************************)
(* POST /query                                                             *)
(***************************************************************************)
FormatOf(format) == IF format = NoVal THEN "records" ELSE format

\* let finalCypher = cypher; if (!finalCypher && preset) switch (preset) ...
\* The result is [known, stmt]: known is FALSE in the switch's default branch,
\* stmt is <<>> when finalCypher is still missing.
FinalCypher(cypher, preset) ==
  IF cypher # 0 THEN [known |-> TRUE, stmt |-> <<Queries[cypher]>>]
  ELSE IF preset # NoVal
       THEN [known |-> PresetCypher(preset) # <<>>, stmt |-> PresetCypher(preset)]
  ELSE [known |-> TRUE, stmt |-> <<>>]

\* The handler of part_001 up to its first await.
QueryBeginPart1(rq) ==
  LET f == FinalCypher(rq.cypher, rq.preset)
  IN  IF ~f.known
      THEN EarlyReturn(rq, Resp(400, "error", <<>>, "Unknown preset"))
      ELSE IF f.stmt = <<>>
      THEN EarlyReturn(rq, Resp(400, "error", <<>>, "Missing Cypher query or invalid type."))
      ELSE IF IsDestructive(f.stmt[1].text)
      THEN EarlyReturn(rq, Resp(400, "error", <<>>, "Dangerous Cypher command detected."))
      ELSE [rq EXCEPT !.pc = "query", !.final = f.stmt,
                      !.bound = <<QueryLimit(rq.limit)>>]

\* The handler of server.js up to its first await: the body's
\* cypher is run as it is given; there is no preset and no keyword test.
QueryBeginPlain(rq) ==
  IF rq.cypher = 0
  THEN EarlyReturn(rq, Resp(400, "error", <<>>, "Missing or invalid Cypher query string."))
  ELSE [rq EXCEPT !.pc = "query", !.final = <<Queries[rq.cypher]>>]

QueryStart(r, file, cypher, format, preset, limit) ==
  /\ req[r].pc \in {"idle", "done"}
  /\ started' = started + 1
  /\ LET rq == OpenSession([IdleReq EXCEPT
                  !.ep = "query", !.file = file, !.cypher = cypher,
                  !.format = FormatOf(format), !.preset = preset,
                  !.limit = limit])
     IN  req' = [req EXCEPT ![r] =
                   IF file = "part1" THEN QueryBeginPart1(rq) ELSE QueryBeginPlain(rq)]
  /\ UNCHANGED <<nodes, edges, clock>>

\* The members of a set as rows, in an order of the store's choosing.
RECURSIVE RowsOf(_)
RowsOf(es) ==
  IF es = {} THEN <<>>
  ELSE LET e == CHOOSE x \in es : TRUE IN <<e>> \o RowsOf(es \ {e})

\* LIMIT $limit: the first rows, as many as the bound says; every row when
\* the statement has no LIMIT (lim is <<>>).
Limited(rows, lim) ==
  IF lim = <<>> \/ lim[1] >= Len(rows) THEN rows ELSE SubSeq(rows, 1, lim[1])

\* The row limit of a statement under the value bound to $limit.
LimitOf(stmt, bound) ==
  IF UsesLimit(stmt) /\ bound # <<>> THEN <<bound[1].v[1] \div 10>> ELSE <<>>

\* The store runs the statement: a statement that names $limit needs the
\* parameter bound to a value LIMIT takes.
StatementAccepted(stmt, bound) ==
  UsesLimit(stmt) => (bound # <<>> /\ CypherLimitValid(bound[1]))

\* The nodes a statement returns.
Returned(stmt, ns, es, lim) ==
  CASE stmt.kind \in {"nodes", "props"} ->
         LET rows == Limited(RowsOf({n \in ns : stmt.label \in {NoVal, n.label}}), lim)
         IN  {rows[j] : j \in 1..Len(rows)}
    [] stmt.kind = "edges" ->
         LET rows == Limited(RowsOf({e \in es : \E a \in ns :
                                       a.id = e.src /\ stmt.label \in {NoVal, a.label}}), lim)
         IN  {n \in ns : \E j \in 1..Len(rows) : n.id \in {rows[j].src, rows[j].dst}}
    [] OTHER -> {}

\* record.toObject(): a returned node is a Node object, whose properties are
\* under .properties (as POST /graph reads them: record.get("a").properties);
\* a returned property map is a plain object.
Shape(stmt) == IF stmt.kind = "props" THEN "map" ELSE "node"

\* The context the response carries for one returned value.
\*   if (obj[key]?.context && typeof obj[key].context === "string")
\*     try { obj[key].context = JSON.parse(obj[key].context) } catch {}
\* obj[key].context is undefined for a Node object, and falsy for "".
Delivered(format, shape, context) ==
  IF /\ format = "json"
     /\ shape = "map"
     /\ context # <<>>
     /\ context[1] # <<>>
     /\ JSONparse(context[1]).ok
  THEN JSONparse(context[1]).val
  ELSE IF context = <<>> THEN JNull ELSE JStr(context[1])

\* await session.run(finalCypher, ...), the formatting of the records and the
\* response.
QueryRun(r) ==
  /\ req[r].pc = "query"
  /\ LET rq == Ran(req[r], 0, TRUE)
         stmt == rq.final[1]
         out == Returned(stmt, nodes, edges, LimitOf(stmt, rq.bound))
     IN  IF ~StatementAccepted(stmt, rq.bound)
         THEN /\ req' = [req EXCEPT ![r] =
                   Catch(Ran(req[r], 0, FALSE), "Invalid input for LIMIT")]
              /\ UNCHANGED <<nodes, edges>>
         ELSE /\ nodes' = CASE stmt.kind = "delete" -> CypherDeleteAll(nodes)
                            [] stmt.kind = "bare" -> CypherCreateBare(nodes)
                            [] OTHER -> nodes
              /\ edges' = IF stmt.kind = "delete" THEN {} ELSE edges
              /\ req' = [req EXCEPT ![r] =
                   Respond([rq EXCEPT !.results =
                              [id \in NodeIds(out) |->
                                 LET n == CHOOSE m \in out : m.id = id
                                 IN  [stored |-> n.context,
                                      delivered |-> Delivered(rq.format, Shape(stmt), n.context)]]],
                           Resp(200, "ok", <<>>, ""))]
  /\ UNCHANGED <<clock, started>>

(***************************************************************************)
(* POST /graph (part_001)                                                  *)
(***************************************************************************)
\* function safeParse(value)
safeParse(context) ==
  IF context = <<>> THEN JObj(<<>>)
  ELSE IF JSONparse(context[1]).ok THEN JSONparse(context[1]).val
  ELSE JObj(<<[k |-> <<"r","a","w">>, v |-> JStr(context[1])]>>)

\* The rows of MATCH (a:filterLabel)-[r]->(b) RETURN a, type(r) AS relType, b
\* LIMIT $limit
GraphRows(ns, es, filterLabel, lim) ==
  Limited(RowsOf({e \in es : \E a \in ns : a.id = e.src /\ filterLabel \in {NoVal, a.label}}),
          lim)

NodeOf(ns, id) == CHOOSE n \in ns : n.id = id

\* A mutation of MapSet: the entry is added without the nodes.has(id) test.
MapSetUnchecked(m, n) ==
  Append(m, [id |-> n.text, context |-> safeParse(n.context)])

\* if (!nodes.has(id)) nodes.set(id, {id, ..., context: safeParse(n.context)})
MapSet(m, n) ==
  IF \E j \in 1..Len(m) : m[j].id = n.text THEN m
  ELSE Append(m, [id |-> n.text, context |-> safeParse(n.context)])

RECURSIVE GraphNodes(_, _, _, _)
GraphNodes(ns, rows, j, m) ==
  IF j > Len(rows) THEN m
  ELSE GraphNodes(ns, rows, j + 1,
                  MapSet(MapSet(m, NodeOf(ns, rows[j].src)), NodeOf(ns, rows[j].dst)))

GraphLinks(ns, rows) ==
  [j \in 1..Len(rows) |->
     [source |-> NodeOf(ns, rows[j].src).text, target |-> NodeOf(ns, rows[j].dst).text,
      type |-> rows[j].type]]

\* The handler up to its first await.
GraphStart(r, filterLabel, limit) ==
  /\ req[r].pc \in {"idle", "done"}
  /\ started' = started + 1
  /\ req' = [req EXCEPT ![r] =
       OpenSession([IdleReq EXCEPT !.pc = "graph", !.ep = "graph", !.file = "part1",
                                   !.filterLabel = filterLabel, !.limit = limit,
                                   !.bound = <<GraphLimit(limit)>>])]
  /\ UNCHANGED <<nodes, edges, clock>>

\* await session.run(cypher, { limit }), the loop over the records and the
\* response.
GraphRun(r) ==
  /\ req[r].pc = "graph"
  /\ LET rq == Ran(req[r], 0, TRUE)
         rows == GraphRows(nodes, edges, rq.filterLabel, <<rq.bound[1].v[1] \div 10>>)
     IN  req' = [req EXCEPT ![r] =
           IF ~CypherLimitValid(rq.bound[1])
           THEN Catch(Ran(req[r], 0, FALSE), "Invalid input for LIMIT")
           ELSE Respond([rq EXCEPT !.gnodes = GraphNodes(nodes, rows, 1, <<>>),
                                   !.links = GraphLinks(nodes, rows),
                                   !.rows = Len(rows)],
                        Resp(200, "ok", <<>>, ""))]
  /\ UNCHANGED <<nodes, edges, clock, started>>

(***************************************************************************)
(* Store failures and the finally block                                    *)
(***************************************************************************)
\* session.run rejects (the store is unreachable, a constraint fails, ...):
\* the statement has no effect and control goes to the catch block.
StmtFail(r) ==
  /\ req[r].pc \in {"node", "rel", "query", "graph"}
  /\ req' = [req EXCEPT ![r] =
       Catch(Ran(req[r], IF req[r].pc = "rel" THEN req[r].i ELSE 0, FALSE),
             "store failure")]
  /\ UNCHANGED <<nodes, edges, clock, started>>

\* finally { await session.close(); }
SessionClose(r) ==
  /\ req[r].pc = "closing"
  /\ req' = [req EXCEPT ![r] = [@ EXCEPT !.closed = @ + 1, !.pc = "done"]]
  /\ UNCHANGED <<nodes, edges, clock, started>>

(***************************************************************************)
(* Spec: a client sends up to MaxRequests requests, each after the response *)
(* to the one before; every body of the input sets below is tried.  Slot 1  *)
(* holds the last POST /write, slot 2 the last POST /query or POST /graph.  *)
(***************************************************************************)
\* The bodies of POST /write.  Text "A" comes with every mode and context;
\* a label comes with the object context; relationships come with the
\* default context and label (the one-descriptor list with mode create);
\* text "B" comes with the default body only.
WriteInputs ==
  {b \in [file : Files, text : Texts, label : LabelInputs,
          c : 1..Len(ContextInputs), l : 1..Len(RelInputs), mode : ModeInputs] :
     /\ b.c # 4
     /\ b.file = "server" => b.label = NoVal
     /\ b.label # NoVal => b.c = 2
     /\ b.l # 1 => (b.c = 1 /\ b.label = NoVal)
     /\ b.l = 2 => b.mode = NoVal
     /\ b.text = "B" => (b.c = 1 /\ b.l = 1 /\ b.label = NoVal /\ b.mode = NoVal)}

\* The bodies of POST /query: server.js reads no preset; a preset comes with
\* no cypher, the json format with the statements that return nodes, and the
\* schema statement goes to part_001.
QueryInputs ==
  {b \in [file : Files, cypher : CypherInputs, format : FormatInputs,
          preset : PresetInputs] :
     /\ b.cypher # 5
     /\ b.file = "server" => (b.preset = NoVal /\ b.cypher # 4)
     /\ b.preset # NoVal => (b.cypher = 0 /\ b.format = NoVal)
     /\ b.format # NoVal => b.cypher \in {1, 2}
     /\ (b.file = "part1" /\ b.cypher \in {1, 2}) => b.format # NoVal}

\* No request is in flight (a slot that holds a completed request is free).
Quiet == \A q \in Reqs : req[q].pc \in {"idle", "done"}

Next ==
  \/ \E b \in WriteInputs, now \in 1..MaxTime :
       /\ Quiet /\ started < MaxRequests
       /\ WriteStart(1, now, b.file, b.text, b.label, ContextInputs[b.c], RelInputs[b.l], b.mode)
  \/ \E r \in Reqs : WriteNode(r)
  \/ \E r \in Reqs : WriteRel(r)
  \/ \E b \in QueryInputs :
       /\ Quiet /\ started < MaxRequests
       /\ QueryStart(2, b.file, b.cypher, b.format, b.preset, LUndefined)
  \/ \E r \in Reqs : QueryRun(r)
  \/ \E filterLabel \in LabelInputs :
       /\ Quiet /\ started < MaxRequests
       /\ GraphStart(2, filterLabel, LUndefined)
  \/ \E r \in Reqs : GraphRun(r)
  \/ \E r \in Reqs : StmtFail(r)
  \/ \E r \in Reqs : SessionClose(r)

Spec == Init /\ [][Next]_vars

(***************************************************************************)
(* SpecConc: requests are served concurrently, up to MaxConcRequests of     *)
(* them in one behaviour, two in flight at a time, their steps interleaved  *)
(* at the awaits.  The bodies are fewer: one text, the default label and    *)
(* context, the modes create and skip; the clock has moved on between two   *)
(* requests (the n-th request reads the time n).                            *)
(***************************************************************************)
ConcWriteInputs ==
  {b \in WriteInputs : /\ b.text = "A" /\ b.label = NoVal /\ b.c = 1
                       /\ b.l \in {1, 3} /\ b.mode \in {NoVal, "skip"}
                       /\ b.mode = "skip" => b.l = 3}

ConcQueryInputs ==
  {b \in QueryInputs : /\ b.preset \in {NoVal, "nope"}
                       /\ b.file = "server" => (b.cypher = 0 /\ b.format = NoVal)
                       /\ b.file = "part1" => b.cypher \in {0, 2, 3}}

NextConc ==
  \/ \E r \in Reqs, b \in ConcWriteInputs :
       /\ started < MaxConcRequests
       /\ WriteStart(r, started + 1, b.file, b.text, b.label, ContextInputs[b.c], RelInputs[b.l], b.mode)
  \/ \E r \in Reqs : WriteNode(r)
  \/ \E r \in Reqs : WriteRel(r)
  \/ \E r \in Reqs, b \in ConcQueryInputs :
       /\ started < MaxConcRequests
       /\ QueryStart(r, b.file, b.cypher, b.format, b.preset, LUndefined)
  \/ \E r \in Reqs : QueryRun(r)
  \/ \E r \in Reqs :
       /\ started < MaxConcRequests
       /\ GraphStart(r, NoVal, LUndefined)
  \/ \E r \in Reqs : GraphRun(r)
  \/ \E r \in Reqs : StmtFail(r)
  \/ \E r \in Reqs : SessionClose(r)

SpecConc == Init /\ [][NextConc]_vars

(***************************************************************************)
(* SpecGraph: the reading side.  A client sends up to MaxGraphRequests      *)
(* requests one after another: writes of text "A" that build a graph (a     *)
(* context that is no JSON text, duplicate texts, a labelled node), the     *)
(* statement that creates a node with no context, and then POST /query     *)
(* presets and POST /graph; the last request of a behaviour comes with     *)
(* every value of limit, the requests before it with no limit.             *)
(***************************************************************************)
GraphWriteInputs ==
  {b \in [file : {"part1"}, text : {"A"}, label : LabelInputs,
          c : 1..Len(ContextInputs), l : 1..Len(RelInputs), mode : {NoVal}] :
     \/ b.label = NoVal /\ b.c = 4 /\ b.l = 3
     \/ b.label = NoVal /\ b.c = 1 /\ b.l = 2
     \/ b.label = "Person" /\ b.c = 2 /\ b.l = 1}

GraphQueryInputs ==
  {b \in [file : Files, cypher : {0, 5}, preset : {NoVal, "getAllPersons"},
          i : 1..Len(LimitInputs)] :
     \/ b.file = "server" /\ b.cypher = 5 /\ b.preset = NoVal /\ b.i = 1
     \/ b.file = "part1" /\ b.cypher = 0 /\ b.preset = "getAllPersons"}

GraphInputs ==
  {b \in [filterLabel : LabelInputs, i : 1..Len(LimitInputs)] :
     b.filterLabel # NoVal => b.i = 1}

NextGraph ==
  \/ \E b \in GraphWriteInputs :
       /\ Quiet /\ started < MaxGraphRequests
       /\ WriteStart(1, started + 1, b.file, b.text, b.label, ContextInputs[b.c],
                     RelInputs[b.l], b.mode)
  \/ \E r \in Reqs : WriteNode(r)
  \/ \E r \in Reqs : WriteRel(r)
  \/ \E b \in GraphQueryInputs :
       /\ Quiet /\ started < MaxGraphRequests
       /\ b.i # 1 => started = MaxGraphRequests - 1
       /\ QueryStart(2, b.file, b.cypher, NoVal, b.preset, LimitInputs[b.i])
  \/ \E r \in Reqs : QueryRun(r)
  \/ \E b \in GraphInputs :
       /\ Quiet /\ started < MaxGraphRequests
       /\ b.i # 1 => started = MaxGraphRequests - 1
       /\ GraphStart(2, b.filterLabel, LimitInputs[b.i])
  \/ \E r \in Reqs : GraphRun(r)
  \/ \E r \in Reqs : StmtFail(r)
  \/ \E r \in Reqs : SessionClose(r)

SpecGraph == Init /\ [][NextGraph]_vars

(***************************************************************************)
(* Properties                                                              *)
(***************************************************************************)
Last(q) == q[Len(q)]

\* In this step the node statement of request r settles.
NodeSettles(r) ==
  /\ req[r].pc = "node"
  /\ Len(req'[r].runs) = Len(req[r].runs) + 1

\* In this step the statement that request r awaits resolves.
Resolves(r) ==
  /\ Len(req'[r].runs) = Len(req[r].runs) + 1
  /\ Last(req'[r].runs).ok

\* In this step the statement that request r awaits rejects.
Rejects(r) ==
  /\ Len(req'[r].runs) = Len(req[r].runs) + 1
  /\ ~Last(req'[r].runs).ok

\* The store itself failed the statement that request r awaited.
StoreFailed(rq) == rq.res # <<>> /\ Last(rq.res).error = "store failure"

\* C1: a skip write whose text already exists under the label responds
\* {status: "skipped"} and leaves the stored context of every such node as it
\* was.
C1_SkipExistingIsSkipped ==
  [][\A r \in Reqs :
       (/\ req[r].pc = "node" /\ req[r].mode = "skip"
        /\ Matching(nodes, req[r].label, req[r].text) # {}
        /\ Resolves(r))
       => /\ req'[r].res = <<Resp(200, "skipped", <<>>, "")>>
          /\ \A n \in Matching(nodes, req[r].label, req[r].text) :
               \E m \in nodes' : m.id = n.id /\ m.context = n.context]_vars

\* C2: a skip write whose text already existed (a node of that label and text
\* is older than the request) issues no relationship statement, whatever its
\* relationships list.
C2_SkipExistingRunsNoRelationship ==
  \A r \in Reqs :
    (/\ req[r].ep = "write" /\ req[r].mode = "skip"
     /\ \E n \in Matching(nodes, req[r].label, req[r].text) :
          n.createdAt # <<>> /\ n.createdAt[1] < req[r].timestamp)
    => \A j \in 1..Len(req[r].runs) : req[r].runs[j].k = 0

\* C3: an overwrite write of a text that at most one node of the label
\* carries leaves exactly one such node, with the call's serialised context,
\* updatedAt the call's timestamp, and createdAt the timestamp of the call
\* that created it.
C3_OverwriteSetsTheNode ==
  [][\A r \in Reqs :
       (/\ req[r].mode = "overwrite"
        /\ NodeSettles(r)
        /\ ~StoreFailed(req'[r])
        /\ Cardinality(Matching(nodes, req[r].label, req[r].text)) <= 1)
       => LET old == Matching(nodes, req[r].label, req[r].text)
              new == Matching(nodes', req[r].label, req[r].text)
          IN  /\ Cardinality(new) = 1
              /\ \A n \in new :
                   /\ n.context = <<req[r].contextString>>
                   /\ n.updatedAt = <<req[r].timestamp>>
                   /\ n.createdAt = IF old = {} THEN <<req[r].timestamp>>
                                    ELSE (CHOOSE o \in old : TRUE).createdAt]_vars

\* The response of a request that has responded {status: "ok", ...}.
RespondedOk(rq) == rq.res # <<>> /\ rq.res[1].status = "ok"

C4_CreateStep ==
  \A r \in Reqs :
    (req[r].pc = "node" /\ req[r].mode = "create" /\ Resolves(r))
    => \E n \in nodes' \ nodes :
         /\ nodes' = nodes \cup {n}
         /\ n.id \notin NodeIds(nodes)
         /\ n.text = req[r].text /\ n.label = req[r].label
         /\ n.context = <<req[r].contextString>>
         /\ req'[r].nodeId = <<n.id>>

C4_DistinctIds ==
  \A r1, r2 \in Reqs :
    (/\ r1 # r2
     /\ req[r1].ep = "write" /\ req[r1].mode = "create" /\ RespondedOk(req[r1])
     /\ req[r2].ep = "write" /\ req[r2].mode = "create" /\ RespondedOk(req[r2]))
    => req[r1].res[1].nodeId # req[r2].res[1].nodeId

\* C4: a create write whose statement the store runs adds exactly one node,
\* with an id no node of the store had, whatever the store holds; the
\* responses of two create writes carry different nodeId values.
C4_CreateAddsOneNode == [][C4_CreateStep]_vars /\ []C4_DistinctIds

\* C4, witness: two identical create writes have responded ok and the store
\* holds two nodes of their text and label.
C4_Witness ==
  /\ \A r \in Reqs : /\ req[r].pc = "done" /\ req[r].ep = "write"
                     /\ req[r].mode = "create" /\ RespondedOk(req[r])
  /\ req[1].file = req[2].file /\ req[1].rels = req[2].rels
  /\ Cardinality(Matching(nodes, "Memory", "A")) = 2

\* The statement text POST /query is asked to run: the body's cypher or, when
\* there is none, the text of the preset.
AskedText(rq) ==
  IF rq.cypher # 0 THEN <<Queries[rq.cypher].text>>
  ELSE IF PresetCypher(rq.preset) # <<>> THEN <<PresetCypher(rq.preset)[1].text>>
  ELSE <<>>

\* C5: a POST /query whose statement text names delete or drop, in any letter
\* case, runs no statement, and its response is a 400.
C5_DestructiveIsRejected ==
  \A r \in Reqs :
    (/\ req[r].ep = "query"
     /\ AskedText(req[r]) # <<>>
     /\ MentionsKeyword(AskedText(req[r])[1]))
    => /\ req[r].runs = <<>>
       /\ req[r].res # <<>> => req[r].res[1].code = 400

\* C6: every request opens one session; the session is open while the
\* request is in flight and is closed exactly once when the request has
\* completed, whatever its path and whatever the other request does; with
\* every request completed no session is open.
C6_SessionClosedOnce ==
  \A r \in Reqs :
    /\ req[r].pc = "idle" => (req[r].opened = 0 /\ req[r].closed = 0)
    /\ req[r].pc \in {"node", "rel", "query", "graph", "closing"}
         => (req[r].opened = 1 /\ req[r].closed = 0)
    /\ req[r].pc = "done"
         => (req[r].opened = 1 /\ req[r].closed = 1 /\ Len(req[r].res) = 1)

\* C6, witness: two requests have completed, one by an early return with a
\* 400 or a "skipped" response, the other by a store failure answered 500.
C6_Witness ==
  \E r1, r2 \in Reqs :
    /\ req[r1].pc = "done" /\ req[r2].pc = "done"
    /\ req[r1].res[1].code = 400 \/ req[r1].res[1].status = "skipped"
    /\ req[r2].res[1].code = 500
    /\ req[r1].closed = 1 /\ req[r2].closed = 1

\* C7: when POST /query with format json returns a node whose stored context
\* is the one a POST /write stored, the response carries a context
\* structurally equal to the context of that write's body.
C7_ContextRoundTrip ==
  LET w == req[1]
      q == req[2]
  IN  (/\ w.ep = "write" /\ RespondedOk(w)
       /\ q.ep = "query" /\ RespondedOk(q) /\ q.format = "json"
       /\ w.nodeId[1] \in DOMAIN q.results
       /\ q.results[w.nodeId[1]].stored = <<w.contextString>>)
      => JsonEq(q.results[w.nodeId[1]].delivered, ContextOf(w.context))

\* C8: the relationship type a POST /write is about to interpolate has the
\* length of the descriptor's type and holds only uppercase letters, digits
\* and underscores.
C8_TypeIsUpperDigitUnderscore ==
  \A r \in Reqs :
    req[r].pc = "rel"
    => LET in == req[r].rels[req[r].i].type
           out == RelType(req[r].file, in)
       IN  /\ Len(out) = Len(in)
           /\ \A j \in 1..Len(out) : out[j] \in UpperChars \cup DigitChars \cup {"_"}

C9_AtMostOneEdge ==
  \A e1, e2 \in edges :
    (e1.src = e2.src /\ e1.dst = e2.dst /\ e1.type = e2.type) => e1 = e2

C9_RelationshipStep ==
  \A r \in Reqs :
    (req[r].pc = "rel" /\ Resolves(r))
    => LET rel == req[r].rels[req[r].i]
           type == RelType(req[r].file, rel.type)
           pairs == MatchPairs(nodes, RelLabel(req[r].file), rel.from, rel.to)
       IN  /\ edges \subseteq edges'
           /\ (\A p \in pairs : Parallel(edges, p[1], p[2], type) # {}) => edges' = edges

\* C9: a relationship statement changes no edge the store holds (createdAt
\* included) and adds none when every matched pair of nodes has an edge of the
\* type already; the store never holds two edges of one type between one
\* ordered pair of nodes.
C9_RelationshipIdempotent == [][C9_RelationshipStep]_vars /\ []C9_AtMostOneEdge

\* C9, witness: a request of part_001 has run the statement of a descriptor
\* all of whose edges an earlier request had created, and every edge of the
\* type carries the earlier createdAt.
C9_Witness ==
  \E r \in Reqs :
    /\ req[r].file = "part1" /\ req[r].ep = "write" /\ req[r].mode = "skip"
    /\ \E j \in 1..Len(req[r].runs) : req[r].runs[j].k = 2 /\ req[r].runs[j].ok
    /\ \E e \in edges : e.type = TLikes
    /\ \A e \in edges :
         e.type = TLikes => (e.createdAt # <<>> /\ e.createdAt[1] < req[r].timestamp)

C10_Sequence ==
  \A r \in Reqs :
    req[r].ep = "write" =>
      LET rq == req[r]
          n == Len(rq.runs)
          ran == {rq.runs[j].k : j \in 1..n}
      IN  /\ n >= 1 => rq.runs[1].k = 0
          /\ \A j \in 1..(n - 1) : rq.runs[j].k < rq.runs[j + 1].k /\ rq.runs[j].ok
          /\ \A k \in ran \ {0} : ~Incomplete(rq.rels[k])
          /\ \A k \in ran, d \in 1..Len(rq.rels) :
               (d < k /\ ~Incomplete(rq.rels[d])) => d \in ran
          /\ Len(rq.res) <= 1
          /\ (n >= 1 /\ ~rq.runs[n].ok)
               => (/\ Len(rq.res) = 1
                   /\ rq.res[1].code = 500 /\ rq.res[1].error # ""
                   /\ rq.pc \in {"closing", "done"})
          /\ RespondedOk(rq)
               => /\ \A j \in 1..n : rq.runs[j].ok
                  /\ \A d \in 1..Len(rq.rels) : ~Incomplete(rq.rels[d]) => d \in ran

C10_FailureStep ==
  \A r \in Reqs :
    (req[r].ep = "write" /\ Rejects(r)) => (nodes' = nodes /\ edges' = edges)

\* C10: the statements of one POST /write are the node statement, then the
\* statements of the complete descriptors in list order, each once; an
\* incomplete descriptor is passed over; a statement that fails is the last
\* one the request runs, it is answered by one 500 response, and it undoes
\* nothing the earlier statements did; an ok response follows the statements
\* of all complete descriptors.
C10_SequentialNoRollback == [][C10_FailureStep]_vars /\ []C10_Sequence

\* C10, witness: a request passed over its first descriptor, ran the second,
\* failed on the third and answered 500; the edge of the second is in the
\* store.
C10_Witness ==
  \E r \in Reqs :
    /\ req[r].pc = "done" /\ req[r].ep = "write"
    /\ req[r].runs = <<[k |-> 0, ok |-> TRUE], [k |-> 2, ok |-> TRUE],
                       [k |-> 3, ok |-> FALSE]>>
    /\ Incomplete(req[r].rels[1])
    /\ req[r].res # <<>> /\ req[r].res[1].code = 500
    /\ \E e \in edges : e.type = TLikes

\* C11: the value a POST /query of part_001 or a POST /graph binds to $limit
\* is a non-negative integer whatever the body's limit is, and it is the
\* default (250 for /query, 500 for /graph) when the body has no limit.
C11_LimitIsNonNegativeInteger ==
  \A r \in Reqs :
    (req[r].ep \in {"query", "graph"} /\ req[r].bound # <<>>)
    => /\ IsNonNegInteger(req[r].bound[1])
       /\ req[r].limit.t = "undefined"
            => req[r].bound[1] = LNum(10 * (IF req[r].ep = "query"
                                            THEN QueryDefaultLimit
                                            ELSE GraphDefaultLimit))

\* The context the response of POST /graph is to carry for a stored context.
DecodedContext(context) ==
  IF context = <<>> THEN JObj(<<>>)
  ELSE LET p == JSONparse(context[1])
       IN  IF p.ok THEN p.val
           ELSE JObj(<<[k |-> <<"r","a","w">>, v |-> JStr(context[1])]>>)

C12_GraphStep ==
  \A r \in Reqs :
    (req[r].pc = "graph" /\ Resolves(r))
    => LET g == req'[r].gnodes
           ls == req'[r].links
       IN  /\ \A i, j \in 1..Len(g) : g[i].id = g[j].id => i = j
           /\ \A k \in 1..Len(ls) :
                /\ \E i \in 1..Len(g) : g[i].id = ls[k].source
                /\ \E i \in 1..Len(g) : g[i].id = ls[k].target
           /\ Len(ls) = req'[r].rows
           /\ \A i \in 1..Len(g) :
                \E n \in nodes :
                  /\ n.text = g[i].id
                  /\ JsonEq(g[i].context, DecodedContext(n.context))

\* C12: in the response of POST /graph no two entries of nodes have the same
\* id, the source and the target of every link are ids of entries of nodes,
\* there are as many links as records, and the context of every entry is the
\* decoded stored context of a node of that text: the parsed value, {raw:
\* string} for a string that does not parse, {} for an absent context.
C12_GraphNodesAndLinks == [][C12_GraphStep]_vars

\* C12, witness: POST /graph has answered with two links or more, over a
\* store in which two nodes have the text of one entry; one entry carries
\* {raw: ...} and one entry stands for a node that has no context.
C12_Witness ==
  \E r \in Reqs :
    /\ req[r].ep = "graph" /\ req[r].pc = "done" /\ RespondedOk(req[r])
    /\ Len(req[r].links) >= 2
    /\ \E i \in 1..Len(req[r].gnodes) :
         Cardinality({n \in nodes : n.text = req[r].gnodes[i].id}) >= 2
    /\ \E i \in 1..Len(req[r].gnodes) :
         /\ req[r].gnodes[i].context.t = "obj"
         /\ Len(req[r].gnodes[i].context.v) = 1
         /\ req[r].gnodes[i].context.v[1].k = <<"r","a","w">>
    /\ \E i \in 1..Len(req[r].gnodes), n \in nodes :
         n.text = req[r].gnodes[i].id /\ n.context = <<>>

====
